---------------------------- MODULE Spec2Model ----------------------------
(* sitemap2pdf (src/index.ts): a sitemap resolver (fetchSitemapUrls), a   *)
(* page renderer wrapper (fetchPageHtml), a file-name sanitizer           *)
(* (sanitizeUrlToFileName) and the batch loop (main).                     *)
(*                                                                        *)
(* JavaScript strings are modelled as sequences of one-character strings, *)
(* so that indexing, destructuring and the regular-expression rewrites of *)
(* the source are computed character by character.                        *)
EXTENDS Integers, Sequences, FiniteSets, TLC

\* ------------------------------------------------------------------ bounds
\* Deepest chain of nested fetchSitemapUrls calls that is explored.
MaxDepth == 4
\* Longest argument vector that is explored.
MaxArgs == 2

\* ------------------------------------------------------- program constants
MaxFileNameLen == 100

\* ------------------------------------------------------------- characters
Lower ==
  {"a","b","c","d","e","f","g","h","i","j","k","l","m",
   "n","o","p","q","r","s","t","u","v","w","x","y","z"}

Upper ==
  {"A","B","C","D","E","F","G","H","I","J","K","L","M",
   "N","O","P","Q","R","S","T","U","V","W","X","Y","Z"}

Digits ==
  {"0","1","2","3","4","5","6","7","8","9"}

\* The characters kept by /[^a-zA-Z0-9_.-]/g.
Allowed ==
  Lower \cup Upper \cup Digits \cup {"_", ".", "-"}

\* The value of a destructured element that does not exist.
Undefined == <<"undefined">>

\* ---------------------------------------------------- sanitizeUrlToFileName
HttpPrefix == <<"h","t","t","p",":","/","/">>

HttpsPrefix == <<"h","t","t","p","s",":","/","/">>

HasPrefix(s, p) ==
  /\ Len(s) >= Len(p)
  /\ SubSeq(s, 1, Len(p)) = p

\* url.replace(/^https?:\/\//, '')
StripScheme(s) ==
  IF HasPrefix(s, HttpsPrefix) THEN SubSeq(s, Len(HttpsPrefix) + 1, Len(s))
  ELSE IF HasPrefix(s, HttpPrefix) THEN SubSeq(s, Len(HttpPrefix) + 1, Len(s))
  ELSE s

\* s.replace(/\//g, '_')
ReplaceSlashes(s) ==
  [i \in 1..Len(s) |-> IF s[i] = "/" THEN "_" ELSE s[i]]

\* (variant: the first dot is deleted)
ReplaceFirstDotRemoves(s) ==
  IF \E i \in 1..Len(s) : s[i] = "."
  THEN LET first == CHOOSE i \in 1..Len(s) :
                      /\ s[i] = "."
                      /\ \A j \in 1..(i - 1) : s[j] # "."
       IN SubSeq(s, 1, first - 1) \o SubSeq(s, first + 1, Len(s))
  ELSE s

\* s.replace('.', '_'): a string pattern replaces the first occurrence only.
ReplaceFirstDot(s) ==
  IF \E i \in 1..Len(s) : s[i] = "."
  THEN LET first == CHOOSE i \in 1..Len(s) :
                      /\ s[i] = "."
                      /\ \A j \in 1..(i - 1) : s[j] # "."
       IN [i \in 1..Len(s) |-> IF i = first THEN "_" ELSE s[i]]
  ELSE s

IsAllowed(c) == c \in Allowed

\* s.replace(/[^a-zA-Z0-9_.-]/g, '')
StripDisallowed(s) == SelectSeq(s, IsAllowed)

Truncate(s) ==
  IF Len(s) > MaxFileNameLen THEN SubSeq(s, 1, MaxFileNameLen) ELSE s

DropTrailing(s) ==
  IF Len(s) > 1 /\ (s[Len(s)] = "." \/ s[Len(s)] = "_")
  THEN SubSeq(s, 1, Len(s) - 1)
  ELSE s

DefaultPageName ==
  <<"d","e","f","a","u","l","t","_","p","a","g","e","_","n","a","m","e">>

MdExtension == <<".","m","d">>

sanitizeUrlToFileName(url) ==
  LET fileName ==
        DropTrailing(Truncate(StripDisallowed(
          ReplaceFirstDot(ReplaceSlashes(StripScheme(url))))))
  IN IF fileName = <<>> THEN DefaultPageName ELSE fileName \o MdExtension

\* join('docs', baseFileName)
DocsDir == <<"d","o","c","s">>

JoinDocs(baseFileName) == DocsDir \o <<"/">> \o baseFileName

\* ------------------------------------------------------------ the network
\* Sitemap addresses (the resolver never looks inside them).
S0 == <<"s","0">>

S1 == <<"s","1">>

S2 == <<"s","2">>

S3 == <<"s","3">>

SitemapUrls == {S0, S1, S2, S3}

\* Page addresses listed by the sitemaps.
P1 == <<"h","t","t","p","s",":","/","/","a",".","b","/","c">>

P2 == <<"h","t","t","p",":","/","/","a",".","b","/","c">>

P3 == <<"h","t","t","p","s",":","/","/","a",".","b","/","d">>

P4 == <<"a","b">>

P5 == <<"x">>

\* A parsed <url> or <sitemap> element: loc is a bare string, an object
\* carrying the text under '#text', absent, or the element itself is null.
StrLoc(t) == [form |-> "string", text |-> t]

ObjLoc(t) == [form |-> "object", text |-> t]

NoLoc == [form |-> "none", text |-> <<>>]

NullEntry == [form |-> "null", text |-> <<>>]

\* What a GET of a sitemap address leads to: a network error, a non-2xx
\* status, text that does not parse, or a parsed document.  The child group
\* (urlset.url / sitemapindex.sitemap) is an array or a single element.
Failure(k) == [kind |-> k, isArray |-> FALSE, items |-> <<>>]

NetErr == Failure("neterr")

HttpErr == Failure("httperr")

ParseErr == Failure("parseerr")

Neither == Failure("neither")

UrlSet(arr, es) == [kind |-> "urlset", isArray |-> arr, items |-> es]

SitemapIndex(arr, es) == [kind |-> "sitemapindex", isArray |-> arr, items |-> es]

RootDocs ==
  { SitemapIndex(TRUE, <<StrLoc(S1), ObjLoc(S2), StrLoc(S3)>>),
    SitemapIndex(FALSE, <<ObjLoc(S1)>>),
    SitemapIndex(TRUE, <<StrLoc(S1), NoLoc, StrLoc(S2)>>),
    SitemapIndex(TRUE, <<StrLoc(S2), NullEntry>>),
    UrlSet(TRUE, <<ObjLoc(P2), StrLoc(P3)>>),
    UrlSet(FALSE, <<ObjLoc(P1)>>),
    NetErr, HttpErr, ParseErr, Neither }

S1Docs ==
  { NetErr, HttpErr, ParseErr, Neither,
    UrlSet(FALSE, <<StrLoc(P1)>>),
    UrlSet(TRUE, <<StrLoc(P1), ObjLoc(P3), StrLoc(P4)>>),
    UrlSet(TRUE, <<StrLoc(P4), NoLoc>>),
    UrlSet(TRUE, <<StrLoc(P1), NullEntry>>),
    SitemapIndex(TRUE, <<StrLoc(S3), StrLoc(S2)>>),
    SitemapIndex(FALSE, <<StrLoc(S0)>>) }

S2Docs ==
  { NetErr, Neither,
    UrlSet(TRUE, <<ObjLoc(P2), StrLoc(P1)>>),
    UrlSet(FALSE, <<ObjLoc(P3)>>),
    SitemapIndex(FALSE, <<ObjLoc(S2)>>) }

S3Docs ==
  { HttpErr,
    UrlSet(FALSE, <<StrLoc(P5)>>),
    UrlSet(FALSE, <<StrLoc(P4)>>) }

Worlds ==
  { [u \in SitemapUrls |->
       IF u = S0 THEN d0 ELSE IF u = S1 THEN d1 ELSE IF u = S2 THEN d2 ELSE d3] :
    d0 \in RootDocs, d1 \in S1Docs, d2 \in S2Docs, d3 \in S3Docs }

\* Deno.args
ArgVectors == { SubSeq(<<S0, S1, S2, S3>>, 1, n) : n \in 0..MaxArgs }

\* ------------------------------------------------------------------ state
VARIABLES
  args,          \* Deno.args
  world,         \* what each sitemap address answers
  pc,            \* where main is
  exitCode,      \* -1 while running
  uncaught,      \* the error that escaped main, "none" if none
  stack,         \* the chain of fetchSitemapUrls calls in progress
  urls,          \* main: const urls
  idx,           \* main: position of the for..of iterator (1-based)
  index,         \* main: first destructured element
  pageUrl,       \* main: second destructured element
  baseFileName,  \* main: const baseFileName
  html,          \* main: const html
  extracted,     \* main: const extracted
  markdown,      \* main: const markdown
  browsers,      \* number of browser sessions that are open
  docsDir,       \* whether docs/ exists
  files,         \* the files under docs/, as {path, content} pairs
  console        \* the lines printed so far

vars ==
  <<args, world, pc, exitCode, uncaught, stack, urls, idx, index, pageUrl,
    baseFileName, html, extracted, markdown, browsers, docsDir, files, console>>

Line(level, msg, arg, n) == [level |-> level, msg |-> msg, arg |-> arg, n |-> n]

Say(level, msg, arg, n) == console' = Append(console, Line(level, msg, arg, n))

\* ------------------------------------------------------- fetchSitemapUrls
\* One call in progress: its argument, where it is (awaiting fetch, about
\* to parse, in the for..of over the nested sitemaps, in the catch block),
\* and its locals.
NewCall(u) ==
  [sitemapUrl |-> u, at |-> "fetch", sitemaps |-> <<>>, k |-> 1, urls |-> <<>>]

Top == stack[Len(stack)]

Callers == SubSeq(stack, 1, Len(stack) - 1)

SetTop(f) == [stack EXCEPT ![Len(stack)] = f]

\* How a call ends.
Return(v) == [type |-> "return", value |-> v]

Throw == [type |-> "throw", value |-> <<>>]

\* Array.isArray(x) ? x : [x]
AsArray(doc) == IF doc.isArray THEN doc.items ELSE <<doc.items[1]>>

\* (variant: only the bare-string form of loc is accepted)
HasLocStringOnly(e) == e.form = "string"

\* u.loc is a non-empty string, or u.loc['#text'] is a string.
HasLoc(e) == e.form \in {"string", "object"}

\* Reading .loc of a null element throws a TypeError.
LocThrows(e) == e.form = "null"

LocText(e) == e.text

\* urls.map(u => loc or null).filter(u => u !== null)
UrlsetLocs(es) ==
  LET kept == SelectSeq(es, HasLoc)
  IN [i \in 1..Len(kept) |-> LocText(kept[i])]

\* (variant: the nested list is put in front of what was collected)
ConcatNestedPrepends(acc, nestedUrls) == nestedUrls \o acc

\* (variant: an empty nested list discards what the siblings contributed)
ConcatNestedResetsOnEmpty(acc, nestedUrls) ==
  IF nestedUrls = <<>> THEN <<>> ELSE acc \o nestedUrls

\* urls = urls.concat(nestedUrls)
ConcatNested(acc, nestedUrls) == acc \o nestedUrls

\* The for..of moves on to the next nested sitemap.
NextEntry(f) == [f EXCEPT !.k = f.k + 1]

\* (variant: the catch block rethrows)
CatchCompletionRethrows == Throw

\* catch (error) { console.error(...); return []; }
CatchCompletion == Return(<<>>)

\* The top call ends with completion c; its caller (another call, or main)
\* resumes from its await.
Deliver(c) ==
  IF Len(stack) = 1
  THEN /\ stack' = <<>>
       /\ IF c.type = "return"
          THEN /\ urls' = c.value
               /\ pc' = "gotUrls"
               /\ UNCHANGED <<uncaught, exitCode>>
          ELSE /\ pc' = "crashed"
               /\ uncaught' = "sitemap"
               /\ exitCode' = 1
               /\ UNCHANGED urls
  ELSE LET caller == Callers[Len(Callers)]
           resumed ==
             IF c.type = "return"
             THEN NextEntry([caller EXCEPT !.urls = ConcatNested(caller.urls, c.value)])
             ELSE [caller EXCEPT !.at = "catch"]
       IN /\ stack' = [Callers EXCEPT ![Len(Callers)] = resumed]
          /\ UNCHANGED <<urls, pc, uncaught, exitCode>>

MainLocals ==
  <<args, world, idx, index, pageUrl, baseFileName, html, extracted, markdown,
    browsers, docsDir, files>>

\* await fetch(sitemapUrl); if (!response.ok) throw
RFetch ==
  /\ stack # <<>>
  /\ Top.at = "fetch"
  /\ Say("log", "Fetching sitemap", Top.sitemapUrl, 0)
  /\ stack' = SetTop([Top EXCEPT !.at =
                IF world[Top.sitemapUrl].kind \in {"neterr", "httperr"}
                THEN "catch" ELSE "parse"])
  /\ UNCHANGED <<urls, pc, uncaught, exitCode>>
  /\ UNCHANGED MainLocals

\* await response.text(); parseXml; classify the document
RParse ==
  /\ stack # <<>>
  /\ Top.at = "parse"
  /\ LET doc == world[Top.sitemapUrl]
     IN CASE doc.kind = "urlset" ->
               IF \E i \in 1..Len(AsArray(doc)) : LocThrows(AsArray(doc)[i])
               THEN /\ stack' = SetTop([Top EXCEPT !.at = "catch"])
                    /\ UNCHANGED <<urls, pc, uncaught, exitCode>>
               ELSE Deliver(Return(UrlsetLocs(AsArray(doc))))
          [] doc.kind = "sitemapindex" ->
               /\ stack' = SetTop([Top EXCEPT !.at = "loop",
                                              !.sitemaps = AsArray(doc),
                                              !.k = 1,
                                              !.urls = <<>>])
               /\ UNCHANGED <<urls, pc, uncaught, exitCode>>
          [] OTHER ->
               /\ stack' = SetTop([Top EXCEPT !.at = "catch"])
               /\ UNCHANGED <<urls, pc, uncaught, exitCode>>
  /\ UNCHANGED console
  /\ UNCHANGED MainLocals

\* one turn of for (const sm of sitemaps)
RIterate ==
  /\ stack # <<>>
  /\ Top.at = "loop"
  /\ Top.k <= Len(Top.sitemaps)
  /\ LET sm == Top.sitemaps[Top.k]
     IN IF LocThrows(sm)
        THEN stack' = SetTop([Top EXCEPT !.at = "catch"])
        ELSE IF HasLoc(sm)
        THEN /\ Len(stack) < MaxDepth
             /\ stack' = Append(stack, NewCall(LocText(sm)))
        ELSE stack' = SetTop(NextEntry(Top))
  /\ UNCHANGED <<urls, pc, uncaught, exitCode, console>>
  /\ UNCHANGED MainLocals

\* return urls (after the for..of)
RReturn ==
  /\ stack # <<>>
  /\ Top.at = "loop"
  /\ Top.k > Len(Top.sitemaps)
  /\ Deliver(Return(Top.urls))
  /\ UNCHANGED console
  /\ UNCHANGED MainLocals

\* the catch block
RCatch ==
  /\ stack # <<>>
  /\ Top.at = "catch"
  /\ Say("error", "Error fetching or parsing sitemap", <<>>, 0)
  /\ Deliver(CatchCompletion)
  /\ UNCHANGED MainLocals

\* ------------------------------------------------------------------- main
NoHtml == [tag |-> "null", of |-> <<>>]

EmptyHtml == [tag |-> "empty", of |-> <<>>]

\* The rendered HTML of a page.
HtmlOf(u) == [tag |-> "html", of |-> u]

\* (variant: only the empty string is skipped, null is not)
FalsyEmptyOnly(h) == h.tag = "empty"

\* !html
Falsy(h) == h.tag \in {"null", "empty"}

\* extract(html, { charThreshold: 100 })
ExtractOf(h) == [tag |-> "extracted", of |-> h.of]

\* toMarkdown(extracted.root)
MarkdownOf(e) == [tag |-> "markdown", of |-> e.of]

Init ==
  /\ args \in ArgVectors
  /\ world \in Worlds
  /\ pc = "start"
  /\ exitCode = -1
  /\ uncaught = "none"
  /\ stack = <<>>
  /\ urls = <<>>
  /\ idx = 0
  /\ index = Undefined
  /\ pageUrl = Undefined
  /\ baseFileName = <<>>
  /\ html = NoHtml
  /\ extracted = NoHtml
  /\ markdown = NoHtml
  /\ browsers = 0
  /\ docsDir = FALSE
  /\ files = {}
  /\ console = <<>>

ResolverVars == <<stack, urls>>

PageVars == <<idx, index, pageUrl, baseFileName, html, extracted, markdown>>

DiskVars == <<docsDir, files>>

\* (variant: the error is swallowed and the run ends quietly)
CrashSwallowed(cause) ==
  /\ pc' = "done"
  /\ uncaught' = "none"
  /\ exitCode' = 0

\* An error leaves main: the promise of main() rejects and the run dies.
Crash(cause) ==
  /\ pc' = "crashed"
  /\ uncaught' = cause
  /\ exitCode' = 1

\* const [index, pageUrl] of urls: each element of urls is a string, and
\* destructuring a string takes its first and second characters.
Elem(u, i) == IF i <= Len(u) THEN <<u[i]>> ELSE Undefined

Destructure(u) == [index |-> Elem(u, 1), pageUrl |-> Elem(u, 2)]

\* Deno.writeTextFile(path, content): create or overwrite.
WriteTextFile(fs, path, content) ==
  {f \in fs : f.path # path} \cup {[path |-> path, content |-> content]}

\* What fetchPageHtml's catch block returns.
CaughtRender == NoHtml

\* (variant: anything but exactly one argument is refused)
MissingArgumentNotOne(a) == Len(a) # 1

\* Deno.args.length === 0
MissingArgument(a) == Len(a) = 0

\* (variant: an empty list is not noticed)
NoUrlsFoundNever(us) == FALSE

\* urls.length === 0
NoUrlsFound(us) == Len(us) = 0

\* (variant: the directory is not created)
EnsureDirSkipped(d) == d

\* Deno.mkdir('docs', { recursive: true }): docs/ exists afterwards.
EnsureDir(d) == TRUE

\* (variant: the session stays open)
CloseBrowserLeaks(n) == n

\* browser.close()
CloseBrowser(n) == n - 1

\* if (Deno.args.length === 0) { usage; Deno.exit(1) }; first await
MStart ==
  /\ pc = "start"
  /\ IF MissingArgument(args)
     THEN /\ console' = console \o
               <<Line("error", "Please provide a sitemap.xml URL", <<>>, 0),
                 Line("log", "Usage", <<>>, 0)>>
          /\ pc' = "exited"
          /\ exitCode' = 1
          /\ UNCHANGED stack
     ELSE /\ Say("log", "Sitemap URL", args[1], 0)
          /\ stack' = <<NewCall(args[1])>>
          /\ pc' = "resolving"
          /\ UNCHANGED exitCode
  /\ UNCHANGED <<args, world, uncaught, urls, browsers>>
  /\ UNCHANGED PageVars
  /\ UNCHANGED DiskVars

\* if (urls.length === 0) { ...; return }
MCheckUrls ==
  /\ pc = "gotUrls"
  /\ IF NoUrlsFound(urls)
     THEN /\ Say("log", "No URLs found", <<>>, 0)
          /\ pc' = "done"
          /\ exitCode' = 0
     ELSE /\ Say("log", "Found URLs", <<>>, Len(urls))
          /\ pc' = "mkdir"
          /\ UNCHANGED exitCode
  /\ UNCHANGED <<args, world, uncaught, browsers>>
  /\ UNCHANGED ResolverVars
  /\ UNCHANGED PageVars
  /\ UNCHANGED DiskVars

\* await Deno.mkdir('docs', { recursive: true })
MMkdir ==
  /\ pc = "mkdir"
  /\ \E ok \in BOOLEAN :
       IF ok
       THEN /\ docsDir' = EnsureDir(docsDir)
            /\ idx' = 1
            /\ pc' = "iterate"
            /\ UNCHANGED <<uncaught, exitCode>>
       ELSE /\ Crash("mkdir")
            /\ UNCHANGED <<docsDir, idx>>
  /\ UNCHANGED <<args, world, browsers, files, console>>
  /\ UNCHANGED <<index, pageUrl, baseFileName, html, extracted, markdown>>
  /\ UNCHANGED ResolverVars

\* head of the for..of, the progress line and sanitizeUrlToFileName(pageUrl)
MIterate ==
  /\ pc = "iterate"
  /\ idx <= Len(urls)
  /\ LET d == Destructure(urls[idx])
     IN /\ index' = d.index
        /\ pageUrl' = d.pageUrl
        /\ Say("log", "Processing URL", d.pageUrl, 0)
        /\ IF d.pageUrl = Undefined
           THEN /\ Crash("TypeError")
                /\ UNCHANGED baseFileName
           ELSE /\ baseFileName' = sanitizeUrlToFileName(d.pageUrl)
                /\ pc' = "launch"
                /\ UNCHANGED <<uncaught, exitCode>>
  /\ UNCHANGED <<args, world, browsers, idx, html, extracted, markdown>>
  /\ UNCHANGED ResolverVars
  /\ UNCHANGED DiskVars

\* the for..of is exhausted
MFinish ==
  /\ pc = "iterate"
  /\ idx > Len(urls)
  /\ Say("log", "All processing finished", <<>>, 0)
  /\ pc' = "done"
  /\ exitCode' = 0
  /\ UNCHANGED <<args, world, uncaught, browsers>>
  /\ UNCHANGED ResolverVars
  /\ UNCHANGED PageVars
  /\ UNCHANGED DiskVars

\* fetchPageHtml: await puppeteer.launch(...)
FLaunch ==
  /\ pc = "launch"
  /\ \E ok \in BOOLEAN :
       IF ok
       THEN /\ browsers' = browsers + 1
            /\ pc' = "newPage"
            /\ UNCHANGED <<uncaught, exitCode>>
       ELSE /\ Crash("launch")
            /\ UNCHANGED browsers
  /\ UNCHANGED <<args, world, console>>
  /\ UNCHANGED ResolverVars
  /\ UNCHANGED PageVars
  /\ UNCHANGED DiskVars

\* fetchPageHtml: await browser.newPage(), before the try
FNewPage ==
  /\ pc = "newPage"
  /\ \E ok \in BOOLEAN :
       IF ok
       THEN /\ pc' = "goto"
            /\ UNCHANGED <<uncaught, exitCode>>
       ELSE Crash("newPage")
  /\ UNCHANGED <<args, world, console, browsers>>
  /\ UNCHANGED ResolverVars
  /\ UNCHANGED PageVars
  /\ UNCHANGED DiskVars

\* fetchPageHtml: await page.goto(...), inside the try
FGoto ==
  /\ pc = "goto"
  /\ \E ok \in BOOLEAN :
       IF ok
       THEN /\ pc' = "content"
            /\ UNCHANGED <<html, console>>
       ELSE /\ Say("error", "Error fetching page", pageUrl, 0)
            /\ html' = CaughtRender
            /\ pc' = "close"
  /\ UNCHANGED <<args, world, uncaught, exitCode, browsers>>
  /\ UNCHANGED <<idx, index, pageUrl, baseFileName, extracted, markdown>>
  /\ UNCHANGED ResolverVars
  /\ UNCHANGED DiskVars

\* fetchPageHtml: await page.content(), inside the try
FContent ==
  /\ pc = "content"
  /\ \E r \in {"html", "empty", "throw"} :
       IF r = "throw"
       THEN /\ Say("error", "Error fetching page", pageUrl, 0)
            /\ html' = CaughtRender
       ELSE /\ html' = (IF r = "html" THEN HtmlOf(pageUrl) ELSE EmptyHtml)
            /\ UNCHANGED console
  /\ pc' = "close"
  /\ UNCHANGED <<args, world, uncaught, exitCode, browsers>>
  /\ UNCHANGED <<idx, index, pageUrl, baseFileName, extracted, markdown>>
  /\ UNCHANGED ResolverVars
  /\ UNCHANGED DiskVars

\* fetchPageHtml: finally { await browser.close() }
FClose ==
  /\ pc = "close"
  /\ browsers' = CloseBrowser(browsers)
  /\ pc' = "gotHtml"
  /\ UNCHANGED <<args, world, uncaught, exitCode, console>>
  /\ UNCHANGED ResolverVars
  /\ UNCHANGED PageVars
  /\ UNCHANGED DiskVars

\* if (!html) { console.warn(...); continue }
MCheckHtml ==
  /\ pc = "gotHtml"
  /\ IF Falsy(html)
     THEN /\ Say("warn", "Skipping", pageUrl, 0)
          /\ idx' = idx + 1
          /\ pc' = "iterate"
     ELSE /\ pc' = "extract"
          /\ UNCHANGED <<idx, console>>
  /\ UNCHANGED <<args, world, uncaught, exitCode, browsers>>
  /\ UNCHANGED <<index, pageUrl, baseFileName, html, extracted, markdown>>
  /\ UNCHANGED ResolverVars
  /\ UNCHANGED DiskVars

\* const extracted = extract(html, { charThreshold: 100 })
MExtract ==
  /\ pc = "extract"
  /\ \E ok \in BOOLEAN :
       IF ok
       THEN /\ extracted' = ExtractOf(html)
            /\ pc' = "toMarkdown"
            /\ UNCHANGED <<uncaught, exitCode>>
       ELSE /\ Crash("extract")
            /\ UNCHANGED extracted
  /\ UNCHANGED <<args, world, browsers, console>>
  /\ UNCHANGED <<idx, index, pageUrl, baseFileName, html, markdown>>
  /\ UNCHANGED ResolverVars
  /\ UNCHANGED DiskVars

\* const markdown = toMarkdown(extracted.root); path; 'Writing to file'
MToMarkdown ==
  /\ pc = "toMarkdown"
  /\ \E ok \in BOOLEAN :
       IF ok
       THEN /\ markdown' = MarkdownOf(extracted)
            /\ Say("log", "Writing to file", JoinDocs(baseFileName), 0)
            /\ pc' = "write"
            /\ UNCHANGED <<uncaught, exitCode>>
       ELSE /\ Crash("toMarkdown")
            /\ UNCHANGED <<markdown, console>>
  /\ UNCHANGED <<args, world, browsers>>
  /\ UNCHANGED <<idx, index, pageUrl, baseFileName, html, extracted>>
  /\ UNCHANGED ResolverVars
  /\ UNCHANGED DiskVars

\* await Deno.writeTextFile(path, markdown)
MWrite ==
  /\ pc = "write"
  /\ \E ok \in BOOLEAN :
       IF ok
       THEN /\ files' = WriteTextFile(files, JoinDocs(baseFileName), markdown)
            /\ idx' = idx + 1
            /\ pc' = "iterate"
            /\ UNCHANGED <<uncaught, exitCode>>
       ELSE /\ Crash("write")
            /\ UNCHANGED <<files, idx>>
  /\ UNCHANGED <<args, world, browsers, docsDir, console>>
  /\ UNCHANGED <<index, pageUrl, baseFileName, html, extracted, markdown>>
  /\ UNCHANGED ResolverVars

Next ==
  \/ MStart
  \/ RFetch
  \/ RParse
  \/ RIterate
  \/ RReturn
  \/ RCatch
  \/ MCheckUrls
  \/ MMkdir
  \/ MIterate
  \/ MFinish
  \/ FLaunch
  \/ FNewPage
  \/ FGoto
  \/ FContent
  \/ FClose
  \/ MCheckHtml
  \/ MExtract
  \/ MToMarkdown
  \/ MWrite

Spec == Init /\ [][Next]_vars

\* ------------------------------------- sanitizeUrlToFileName on its own
\* Longest free part of an input that is explored.
MaxBody == 3

\* Characters of the free part: kept ones, '/', '.', '_' and stripped ones.
BodyChars == {"a", "-", ".", "/", "_", ":"}

Bodies == UNION { [1..n -> BodyChars] : n \in 0..MaxBody }

\* Lengths of the run of 'a' put before the free part, so that inputs fall
\* short of, reach and pass the 100-character limit.
PadLens == {0, 98, 99}

Pad(n) == [i \in 1..n |-> "a"]

ExampleUrl ==
  <<"h","t","t","p","s",":","/","/","e","x","a","m","p","l","e",".","c","o","m",
    "/","d","o","c","s","/","p","a","g","e","-","o","n","e">>

SanInputs ==
  { pre \o Pad(n) \o b :
      pre \in {<<>>, HttpPrefix, HttpsPrefix}, n \in PadLens, b \in Bodies }
  \cup {ExampleUrl}

SanInit ==
  /\ args = <<>>
  /\ world = [u \in SitemapUrls |-> NetErr]
  /\ pc = "sanitize"
  /\ exitCode = -1
  /\ uncaught = "none"
  /\ stack = <<>>
  /\ urls = <<>>
  /\ idx = 0
  /\ index = Undefined
  /\ pageUrl \in SanInputs
  /\ baseFileName = <<>>
  /\ html = NoHtml
  /\ extracted = NoHtml
  /\ markdown = NoHtml
  /\ browsers = 0
  /\ docsDir = FALSE
  /\ files = {}
  /\ console = <<>>

\* const baseFileName = sanitizeUrlToFileName(pageUrl)
SanApply ==
  /\ pc = "sanitize"
  /\ baseFileName' = sanitizeUrlToFileName(pageUrl)
  /\ pc' = "sanitized"
  /\ UNCHANGED <<args, world, exitCode, uncaught, stack, urls, idx, index,
                 pageUrl, html, extracted, markdown, browsers, docsDir, files,
                 console>>

SanNext == SanApply

SanSpec == SanInit /\ [][SanNext]_vars

\* ============================================================ properties
Last(q) == q[Len(q)]

RECURSIVE ConcatAll(_)
ConcatAll(qs) ==
  IF qs = <<>> THEN <<>> ELSE Head(qs) \o ConcatAll(Tail(qs))

\* The address main asked the resolver for, and what it answers.
RootUrl == args[1]

RootDoc == world[RootUrl]

\* The resolver has returned to main.
Resolved == pc \notin {"start", "resolving", "exited"} /\ uncaught # "sitemap"

Entries(doc) == IF doc.isArray THEN doc.items ELSE <<Head(doc.items)>>

HasNullEntry(doc) == \E i \in 1..Len(Entries(doc)) : Entries(doc)[i].form = "null"

\* A document whose own node fails: fetch, status, parse, classification,
\* or reading .loc of a null element.
NodeFails(doc) ==
  \/ doc.kind \in {"neterr", "httperr", "parseerr", "neither"}
  \/ HasNullEntry(doc)

ValidUrlSet(doc) == doc.kind = "urlset" /\ ~HasNullEntry(doc)

\* The location texts of a document's entries, read straight off the
\* document: entry i counts when it carries a text in either form.
LocTexts(doc) ==
  LET es == Entries(doc)
      n == Cardinality({i \in 1..Len(es) : es[i].form \in {"string", "object"}})
      pos(j) == CHOOSE i \in 1..Len(es) :
                  /\ es[i].form \in {"string", "object"}
                  /\ Cardinality({h \in 1..i : es[h].form \in {"string", "object"}}) = j
  IN [j \in 1..n |-> es[pos(j)].text]

\* What a nested sitemap that is not itself an index resolves to.
LeafResult(doc) == IF ValidUrlSet(doc) THEN LocTexts(doc) ELSE <<>>

Children(doc) == LocTexts(doc)

ErrorLines == SelectSeq(console, LAMBDA l : l.msg = "Error fetching or parsing sitemap")

Fetched(u) == \E i \in 1..Len(console) :
                console[i].msg = "Fetching sitemap" /\ console[i].arg = u

\* C1: fetchSitemapUrls never raises to its caller: no error of the resolver
\* escapes into main, no call in progress is in its catch block because of
\* a nested call, and when the node that was asked for fails (fetch, HTTP
\* status, parse, classification) the list handed to main is empty.
C1_NeverRaises ==
  /\ uncaught # "sitemap"
  /\ \A i \in 1..Len(stack) :
       (stack[i].at = "catch" /\ stack[i].sitemaps # <<>>) =>
          /\ stack[i].k <= Len(stack[i].sitemaps)
          /\ stack[i].sitemaps[stack[i].k].form = "null"
  /\ (Resolved /\ NodeFails(RootDoc)) => urls = <<>>

C1_Witness ==
  /\ pc = "gotUrls"
  /\ RootDoc.kind \in {"neterr", "httperr", "parseerr", "neither"}
  /\ urls = <<>>
  /\ Len(ErrorLines) = 1

\* C3: for a sitemap index whose nested sitemaps are all valid urlset
\* documents, the resolver's result is the concatenation, in entry order, of
\* the lists of the nested sitemaps.
C3_IndexIsConcatenation ==
  ( /\ Resolved
    /\ RootDoc.kind = "sitemapindex"
    /\ ~HasNullEntry(RootDoc)
    /\ \A i \in 1..Len(Children(RootDoc)) : ValidUrlSet(world[Children(RootDoc)[i]]) )
  => urls = ConcatAll([i \in 1..Len(Children(RootDoc)) |->
                         LocTexts(world[Children(RootDoc)[i]])])

C3_Witness ==
  /\ pc = "gotUrls"
  /\ RootDoc.kind = "sitemapindex"
  /\ Len(Children(RootDoc)) = 3
  /\ \A i \in 1..3 : ValidUrlSet(world[Children(RootDoc)[i]])
  /\ \A i \in 1..3 : LocTexts(world[Children(RootDoc)[i]]) # <<>>
  /\ Len(urls) >= 5

\* C4: in a sitemap index, a nested sitemap that fails to resolve contributes
\* an empty list and does not abort its siblings: every sibling is still
\* fetched and the result is the concatenation of the siblings' lists.
C4_FailingChildIsolated ==
  ( /\ Resolved
    /\ RootDoc.kind = "sitemapindex"
    /\ ~HasNullEntry(RootDoc)
    /\ \A i \in 1..Len(Children(RootDoc)) :
         world[Children(RootDoc)[i]].kind # "sitemapindex"
    /\ \E i \in 1..Len(Children(RootDoc)) : NodeFails(world[Children(RootDoc)[i]]) )
  => /\ \A i \in 1..Len(Children(RootDoc)) : Fetched(Children(RootDoc)[i])
     /\ urls = ConcatAll([i \in 1..Len(Children(RootDoc)) |->
                            LeafResult(world[Children(RootDoc)[i]])])

C4_Witness ==
  /\ pc = "gotUrls"
  /\ RootDoc.kind = "sitemapindex"
  /\ Len(Children(RootDoc)) = 3
  /\ ValidUrlSet(world[Children(RootDoc)[1]])
  /\ NodeFails(world[Children(RootDoc)[2]])
  /\ ValidUrlSet(world[Children(RootDoc)[3]])
  /\ urls = LocTexts(world[Children(RootDoc)[1]]) \o LocTexts(world[Children(RootDoc)[3]])
  /\ Len(urls) >= 2
  /\ Len(ErrorLines) = 1

\* C5: for a urlset document whose N entries all carry a location (bare
\* string or object with '#text'), the resolver returns exactly N URLs, in
\* document order, each the location text of its entry.
C5_UrlSetInOrder ==
  ( /\ Resolved
    /\ RootDoc.kind = "urlset"
    /\ \A i \in 1..Len(Entries(RootDoc)) :
         Entries(RootDoc)[i].form \in {"string", "object"} )
  => /\ Len(urls) = Len(Entries(RootDoc))
     /\ \A i \in 1..Len(urls) : urls[i] = Entries(RootDoc)[i].text

C5_Witness ==
  /\ pc = "gotUrls"
  /\ RootDoc.kind = "urlset"
  /\ Len(urls) = 2
  /\ Entries(RootDoc)[1].form = "object"
  /\ Entries(RootDoc)[2].form = "string"
  /\ urls = <<Entries(RootDoc)[1].text, Entries(RootDoc)[2].text>>

InPipeline ==
  pc \in {"launch", "newPage", "goto", "content", "close", "gotHtml",
          "extract", "toMarkdown", "write"}

\* C2 (as claimed): in the i-th iteration the string handed to fetchPageHtml
\* and to sanitizeUrlToFileName is the i-th element of the list returned by
\* fetchSitemapUrls.
C2_PipelineGetsListElement ==
  InPipeline =>
    /\ pageUrl = urls[idx]
    /\ baseFileName = sanitizeUrlToFileName(urls[idx])

\* C6 (as claimed): once a call to fetchPageHtml has ended, by return or by
\* raising, no browser session it launched is still open.
C6_BrowserClosedOnEveryExit ==
  pc \notin {"newPage", "goto", "content", "close"} => browsers = 0

\* The number of pages main has started on among the first j console lines.
Started(j) == Cardinality({h \in 1..j : console[h].msg = "Processing URL"})

\* C7: a page whose navigation (or content read) fails is skipped: the error
\* line is followed by the skip line and then by the next list element's
\* progress line, or by the final report when the list is exhausted; a run
\* never ends on a skipped page, and one that returns normally has started
\* on every list element and printed the final report; and a file changes
\* only right after its 'Writing to file' line, which a failed page never
\* gets.
C7_SkipSequence ==
  \A j \in 1..Len(console) :
    console[j].msg = "Error fetching page" =>
      /\ j < Len(console) => console[j + 1].msg = "Skipping"
      /\ j + 1 < Len(console) =>
           console[j + 2].msg = (IF Started(j) < Len(urls)
                                 THEN "Processing URL"
                                 ELSE "All processing finished")

C7_RunGoesOn ==
  (pc \in {"done", "crashed", "exited"} /\ console # <<>>) =>
     Last(console).msg \notin {"Error fetching page", "Skipping"}

C7_FinalReport ==
  (pc = "done" /\ urls # <<>>) =>
     /\ Last(console).msg = "All processing finished"
     /\ Started(Len(console)) = Len(urls)

C7_WriteIsAnnounced ==
  files' # files =>
    /\ Last(console).msg = "Writing to file"
    /\ html.tag = "html"
    /\ console' = console

C8_OnlyFilesystemErrorsFatal ==
  uncaught \in {"none", "mkdir", "write"}

\* C9 (as claimed): cyclic and self-referential indexes are guarded against.
\* Every address always answers the same, so a call for an address that is
\* already being resolved repeats the descent that led to it without end:
\* resolution terminates on every finite graph only if no address is entered
\* while a call for it is in progress.
C9_NoSitemapReentered ==
  \A i, j \in 1..Len(stack) :
    i < j => stack[i].sitemapUrl # stack[j].sitemapUrl

\* C10 (as claimed): for an index whose children either fail or are valid
\* urlsets with k URLs in total, all k pages rendering and having pairwise
\* distinct sanitized names, the run processes exactly those k URLs, leaves
\* exactly k files named docs/<sanitized name of the URL>, and logs one
\* fetch error per failing child.
C10_Scenario ==
  /\ pc = "done"
  /\ urls # <<>>
  /\ RootDoc.kind = "sitemapindex"
  /\ ~HasNullEntry(RootDoc)
  /\ \A i \in 1..Len(Children(RootDoc)) :
       world[Children(RootDoc)[i]].kind # "sitemapindex"
  /\ \E i \in 1..Len(Children(RootDoc)) : NodeFails(world[Children(RootDoc)[i]])
  /\ \A j \in 1..Len(console) :
       console[j].msg \notin {"Error fetching page", "Skipping"}
  /\ \A i, j \in 1..Len(urls) :
       i # j => sanitizeUrlToFileName(urls[i]) # sanitizeUrlToFileName(urls[j])

C10_EndToEnd ==
  C10_Scenario =>
    /\ LET processed == SelectSeq(console, LAMBDA l : l.msg = "Processing URL")
       IN /\ Len(processed) = Len(urls)
          /\ \A i \in 1..Len(urls) : processed[i].arg = urls[i]
    /\ Cardinality(files) = Len(urls)
    /\ {f.path : f \in files} =
         {JoinDocs(sanitizeUrlToFileName(urls[i])) : i \in 1..Len(urls)}
    /\ Len(ErrorLines) =
         Cardinality({i \in 1..Len(Children(RootDoc)) :
                        NodeFails(world[Children(RootDoc)[i]])})

\* ------------------------------------------ sanitizeUrlToFileName claims
EndsWithMd(s) ==
  /\ Len(s) > Len(MdExtension)
  /\ SubSeq(s, Len(s) - 2, Len(s)) = MdExtension

\* The name without its last three characters.
BaseOf(s) == SubSeq(s, 1, Len(s) - 3)

\* An input of which nothing survives: empty, a bare scheme, or made only of
\* characters that are neither kept nor rewritten.
AllStrippedInput(u) ==
  \/ u \in {<<>>, HttpPrefix, HttpsPrefix}
  \/ \A i \in 1..Len(u) : u[i] \notin (Allowed \cup {"/"})

\* C11 (as claimed): sanitizeUrlToFileName always returns a non-empty name
\* ending in '.md', and for the empty string and every all-stripped input
\* it returns the default base name followed by '.md'.
C11_AlwaysMarkdownName ==
  pc = "sanitized" =>
    /\ EndsWithMd(baseFileName)
    /\ AllStrippedInput(pageUrl) => baseFileName = DefaultPageName \o MdExtension

\* C12 (as claimed): the output is 1 to 100 characters of [a-zA-Z0-9_.-]
\* followed by '.md', and the character before '.md' is neither '_' nor '.'.
C12_OutputPattern ==
  pc = "sanitized" =>
    /\ EndsWithMd(baseFileName)
    /\ Len(BaseOf(baseFileName)) \in 1..100
    /\ \A i \in 1..Len(BaseOf(baseFileName)) : BaseOf(baseFileName)[i] \in Allowed
    /\ Last(BaseOf(baseFileName)) \notin {"_", "."}

ExampleClaimed ==
  <<"e","x","a","m","p","l","e","c","o","m","_","d","o","c","s","_",
    "p","a","g","e","-","o","n","e",".","m","d">>

ExampleActual ==
  <<"e","x","a","m","p","l","e","_","c","o","m","_","d","o","c","s","_",
    "p","a","g","e","-","o","n","e",".","m","d">>

AfterScheme(u) ==
  IF Len(u) >= 8 /\ SubSeq(u, 1, 8) = HttpsPrefix THEN SubSeq(u, 9, Len(u))
  ELSE IF Len(u) >= 7 /\ SubSeq(u, 1, 7) = HttpPrefix THEN SubSeq(u, 8, Len(u))
  ELSE u

DotPlaces(s) == {i \in 1..Len(s) : s[i] = "."}

FirstDotPlace(s) == CHOOSE i \in DotPlaces(s) : \A j \in DotPlaces(s) : i <= j

OutputPlace(s, i) ==
  Cardinality({j \in 1..(i - 1) : s[j] \in (Allowed \cup {"/"})}) + 1

KeptCount(s) == Cardinality({j \in 1..Len(s) : s[j] \in (Allowed \cup {"/"})})

HasLine(m) == \E h \in 1..Len(console) : console[h].msg = m

NothingTouched ==
  /\ stack = <<>>
  /\ browsers = 0
  /\ ~docsDir
  /\ files = {}
  /\ ~HasLine("Fetching sitemap")
  /\ ~HasLine("Processing URL")

Refused ==
  /\ pc \in {"start", "exited"}
  /\ NothingTouched
  /\ pc = "exited" => (exitCode # 0 /\ exitCode # -1 /\ HasLine("Usage"))

\* C14 (as claimed): whenever the number of arguments is not exactly one,
\* main prints the usage and exits non-zero before any network activity
\* and before any filesystem write.
C14_ExactlyOneArgument == Len(args) # 1 => Refused

\* C14 (amended): main requires at least one argument.  With no argument it
\* prints the usage and exits non-zero before any network activity and any
\* filesystem write; with one or more it is never refused and resolves the
\* first argument, ignoring the others.
C14_NoArgumentRefused ==
  /\ Len(args) = 0 => Refused
  /\ Len(args) >= 1 =>
       /\ pc # "exited"
       /\ ~HasLine("Usage")
       /\ stack # <<>> => stack[1].sitemapUrl = args[1]

C14_Witness ==
  /\ Len(args) = 0
  /\ pc = "exited"
  /\ exitCode = 1
  /\ HasLine("Usage")

\* C15: when the resolver returns an empty list, main reports that no URLs
\* were found and ends normally with status 0, without creating docs/,
\* launching a browser or writing a file.
C15_EmptyListEndsRun ==
  (Resolved /\ urls = <<>>) =>
     /\ pc \in {"gotUrls", "done"}
     /\ browsers = 0
     /\ ~docsDir
     /\ files = {}
     /\ ~HasLine("Processing URL")
     /\ pc = "done" =>
          /\ exitCode = 0
          /\ uncaught = "none"
          /\ Last(console).msg = "No URLs found"

C15_Witness ==
  /\ pc = "done"
  /\ urls = <<>>
  /\ exitCode = 0
  /\ Last(console).msg = "No URLs found"
  /\ HasLine("Error fetching or parsing sitemap")

\* C16: processing is strictly sequential.  At most one browser session is
\* open, and none while main is between pages, extracting or writing; a
\* write happens with no session open and no resolver call pending; every
\* resolver call below the top of the chain waits in its for..of for
\* exactly the call above it; and a call moves on to its next entry only
\* when it is itself the top of the chain, its nested call having ended.
C16_OneAtATime ==
  /\ browsers \in {0, 1}
  /\ browsers = 1 => pc \in {"newPage", "goto", "content", "close", "crashed"}
  /\ pc \in {"launch", "iterate", "gotHtml", "extract", "toMarkdown", "write"} =>
       browsers = 0
  /\ stack # <<>> => pc = "resolving"
  /\ \A i \in 1..(Len(stack) - 1) :
       /\ stack[i].at = "loop"
       /\ stack[i].k <= Len(stack[i].sitemaps)
       /\ stack[i].sitemaps[stack[i].k].form \in {"string", "object"}
       /\ stack[i + 1].sitemapUrl = stack[i].sitemaps[stack[i].k].text

C16_SiblingsInTurn ==
  \A i \in 1..Len(stack) :
    (i <= Len(stack') /\ stack'[i].k # stack[i].k) =>
       /\ i = Len(stack')
       /\ (stack[i].at = "loop" /\ stack'[i].at = "loop") =>
            \/ Len(stack) = i + 1
            \/ (Len(stack) = i /\ ~(stack[i].sitemaps[stack[i].k].form \in {"string", "object"}))

C16_Sequential ==
  /\ []C16_OneAtATime
  /\ [][C16_SiblingsInTurn]_vars

C16_Witness ==
  /\ pc = "goto"
  /\ idx = 2
  /\ browsers = 1
  /\ Cardinality(files) = 1

\* The console line that opens the i-th iteration, and whether that
\* iteration announced (and, in a run that ended normally, made) a write.
ProcPos(i) ==
  CHOOSE h \in 1..Len(console) :
    console[h].msg = "Processing URL" /\ Started(h) = i

Wrote(i) ==
  \E h \in 1..Len(console) :
    console[h].msg = "Writing to file" /\ Started(h) = i

\* C17 (as claimed): at the end of the run each file under docs/ holds the
\* Markdown of the last URL, in discovery order, that rendered and maps to
\* that file name; there is one file per such name and no other.
C17_LastWriterWins ==
  (pc = "done" /\ urls # <<>>) =>
     files =
       { [path |-> JoinDocs(sanitizeUrlToFileName(urls[i])),
          content |-> MarkdownOf(ExtractOf(HtmlOf(urls[i])))] :
         i \in {w \in 1..Len(urls) :
                  /\ Wrote(w)
                  /\ \A v \in (w + 1)..Len(urls) :
                       Wrote(v) => sanitizeUrlToFileName(urls[v])
                                     # sanitizeUrlToFileName(urls[w])} }

\* C18: a filesystem error is not recovered: a failing mkdir or write makes
\* main reject; then no further page has been started, the final report is
\* not printed, and nothing happens afterwards.
C18_Fatal ==
  uncaught \in {"mkdir", "write"} =>
     /\ pc = "crashed"
     /\ exitCode = 1
     /\ ~HasLine("All processing finished")
     /\ Started(Len(console)) = idx
     /\ uncaught = "mkdir" => (files = {} /\ ~docsDir)

C18_FailureStep ==
  /\ (pc = "mkdir" /\ pc' # "iterate") =>
        (pc' = "crashed" /\ uncaught' = "mkdir" /\ docsDir' = docsDir)
  /\ (pc = "write" /\ pc' # "iterate") =>
        (pc' = "crashed" /\ uncaught' = "write" /\ files' = files /\ idx' = idx)
  /\ pc # "crashed"

C18_FilesystemErrorFatal ==
  /\ []C18_Fatal
  /\ [][C18_FailureStep]_vars

C18_Witness ==
  /\ pc = "crashed"
  /\ uncaught = "write"
  /\ idx = 2
  /\ Len(urls) >= 3
  /\ Cardinality(files) = 1
  /\ Last(console).msg = "Writing to file"

\* C19 (as claimed): a file is written exactly for the iterations whose
\* render gave non-empty HTML, at docs/<sanitized name of that URL>: only
\* non-empty HTML reaches the extraction and the write, the path about to be
\* written is that of the current list element, and every file's path is
\* that of a list element.
C19_WriteIffHtml ==
  /\ pc \in {"extract", "toMarkdown", "write"} => html.tag = "html"
  /\ (pc = "iterate" /\ idx > 1 /\ ~Wrote(idx - 1)) =>
        Last(console).msg = "Skipping"
  /\ pc = "write" =>
       Last(console).arg = JoinDocs(sanitizeUrlToFileName(urls[idx]))
  /\ {f.path : f \in files} \subseteq
       {JoinDocs(sanitizeUrlToFileName(urls[i])) : i \in 1..Len(urls)}

\* C20: the run is strictly phased.  While the resolver has not returned,
\* no browser is open, docs/ does not exist, no file exists and no page has
\* been started; no sitemap is fetched once a page has been started; docs/
\* exists whenever main is in the page loop or a file exists; and docs/ is
\* created in one place only, entered once, before any file is written.
C20_Phases ==
  /\ pc \in {"start", "resolving", "gotUrls"} =>
       (browsers = 0 /\ ~docsDir /\ files = {} /\ ~HasLine("Processing URL"))
  /\ stack # <<>> => pc = "resolving"
  /\ \A h, j \in 1..Len(console) :
       (h < j /\ console[h].msg = "Processing URL") =>
          console[j].msg # "Fetching sitemap"
  /\ files # {} => docsDir
  /\ (InPipeline \/ pc = "iterate") => docsDir

C20_MkdirOnce ==
  /\ docsDir' # docsDir => (pc = "mkdir" /\ files = {} /\ ~HasLine("Processing URL"))
  /\ (pc' = "mkdir" /\ pc # "mkdir") => pc = "gotUrls"
  /\ (pc' = "gotUrls" /\ pc # "gotUrls") => pc = "resolving"
  /\ (pc' = "resolving" /\ pc # "resolving") => pc = "start"
  /\ pc' # "start"

C20_StrictlyPhased ==
  /\ []C20_Phases
  /\ [][C20_MkdirOnce]_vars

C20_Witness ==
  /\ pc = "done"
  /\ docsDir
  /\ Cardinality(files) >= 2
  /\ Cardinality({h \in 1..Len(console) : console[h].msg = "Fetching sitemap"}) >= 4

=============================================================================
